---- MODULE Spec2Model ----
(***************************************************************************)
(* The two demonstration programs of aws-sdk-migration-tests:              *)
(*   mixed_sdk                     (src/mixed_sdk.go)                      *)
(*   cross_version_infrastructure  (src/unnamed/part_000)                  *)
(* Each is a linear main(); pc is the position in main, the remote backend *)
(* answers every call nondeterministically (an error of the taxonomy or a  *)
(* response), and the console is recorded as structured events.            *)
(***************************************************************************)
EXTENDS Integers, Sequences, FiniteSets, TLC

MaxItems == 4          \* items a backend holds for one EC2 listing
MaxPages == 2          \* pages the backend splits a listing into
MaxReservations == 2   \* reservations a DescribeInstances answer groups into
MaxBuckets == 3        \* buckets a ListBuckets answer holds
MaxObjects == 2        \* objects a ListObjectsV2 answer holds

SampleLimit == 3       \* "if shown < 3", "if i < 3", "count-3"
Running == 0 - 1       \* no exit status yet
ExitOk == 0            \* main returned
ExitFatal == 1         \* log.Fatalf -> os.Exit(1)
ExitPanic == 2         \* Go runtime panic (nil pointer dereference)

VARIABLES prog, pc, err, calls, logs, out, backend, resp, block,
          bucketExists, exitCode, fatalSeen

vars == <<prog, pc, err, calls, logs, out, backend, resp, block,
          bucketExists, exitCode, fatalSeen>>

----------------------------------------------------------------------------
(* Optional (pointer) values: Nil is the nil pointer, <<v>> a pointer to v. *)

Nil == <<>>

StringValue(p) == IF p = Nil THEN "" ELSE p[1]

BoolValue(p) == IF p = Nil THEN FALSE ELSE p[1]

FatalErrors == {"AuthenticationFailure", "NotFound", "Conflict", "UnknownBackendError"}

RetryableErrors == {"Throttled", "TransientNetworkError"}

Errors == FatalErrors \cup RetryableErrors

BucketName == "sdk-migration-test-1"

ObjectKey == "test-object.txt"

Min(a, b) == IF a < b THEN a ELSE b

----------------------------------------------------------------------------
(* What the backend can hold.  Items are in the shape SDK v1 decodes them   *)
(* to (every field a pointer); ToV2* below gives the SDK v2 shape.          *)

Tag(k, v) == [Key |-> k, Value |-> v]

InstancePool ==
  { [InstanceId |-> <<"i-1">>, State |-> <<[Name |-> <<"running">>]>>,
     InstanceType |-> <<"t2.micro">>,
     Tags |-> <<Tag(<<"Env">>, <<"prod">>), Tag(<<"Name">>, Nil), Tag(<<"Name">>, <<"web">>)>>],
    [InstanceId |-> Nil, State |-> Nil, InstanceType |-> Nil, Tags |-> <<>>] }

VpcPool ==
  { [VpcId |-> <<"vpc-1">>, CidrBlock |-> <<"10.0.0.0/16">>, IsDefault |-> <<TRUE>>,
     Tags |-> <<Tag(<<"Name">>, <<"">>), Tag(<<"Name">>, <<"main">>)>>],
    [VpcId |-> Nil, CidrBlock |-> Nil, IsDefault |-> Nil,
     Tags |-> <<Tag(Nil, <<"x">>), Tag(<<"Name">>, Nil), Tag(<<"Name">>, <<"db">>)>>] }

SubnetPool ==
  { [SubnetId |-> <<"subnet-1">>, VpcId |-> <<"vpc-1">>, CidrBlock |-> <<"10.0.1.0/24">>,
     AvailabilityZone |-> <<"us-east-1a">>,
     Tags |-> <<Tag(<<"Name">>, <<"first">>), Tag(<<"Name">>, <<"second">>)>>],
    [SubnetId |-> <<"subnet-2">>, VpcId |-> Nil, CidrBlock |-> Nil,
     AvailabilityZone |-> Nil,
     Tags |-> <<Tag(<<"Name">>, Nil)>>] }

BucketPool ==
  { [Name |-> <<BucketName>>, CreationDate |-> <<"t0">>],
    [Name |-> <<"other-bucket">>, CreationDate |-> Nil],
    [Name |-> Nil, CreationDate |-> Nil] }

ObjectPool == { [Key |-> <<ObjectKey>>], [Key |-> Nil] }

RECURSIVE SeqsUpTo(_, _)
(* the sequences of at most n elements of S                                 *)
SeqsUpTo(S, n) ==
  IF n = 0 THEN {<<>>}
  ELSE LET shorter == SeqsUpTo(S, n - 1)
       IN  shorter \cup { Append(s, x) : s \in { t \in shorter : Len(t) = n - 1 }, x \in S }

RECURSIVE Pagings(_, _)
(* every way to cut the sequence s into 1..k consecutive pieces (a piece    *)
(* may be empty)                                                            *)
Pagings(s, k) ==
  {<<s>>} \cup
  (IF k > 1
   THEN UNION { { <<SubSeq(s, 1, i)>> \o rest :
                    rest \in Pagings(SubSeq(s, i + 1, Len(s)), k - 1) } :
                i \in 0..Len(s) }
   ELSE {})

RECURSIVE Concat(_)
Concat(pages) == IF pages = <<>> THEN <<>> ELSE Head(pages) \o Concat(Tail(pages))

(* a backend listing: its items, cut into pages                             *)
PagedListings(pool, n) ==
  UNION { Pagings(s, MaxPages) : s \in SeqsUpTo(pool, n) }

Reservation(instances) == [Instances |-> instances]

RECURSIVE Reservations(_)
Reservations(groups) ==
  IF groups = <<>> THEN <<>>
  ELSE <<Reservation(Head(groups))>> \o Reservations(Tail(groups))

(* DescribeInstances: the instances grouped into reservations, the          *)
(* reservations cut into pages                                              *)
PagedReservations ==
  UNION { UNION { Pagings(Reservations(g), MaxPages) :
                    g \in Pagings(s, MaxReservations) } :
          s \in SeqsUpTo(InstancePool, MaxItems) }
  \cup Pagings(<<>>, MaxPages)

----------------------------------------------------------------------------
(* SDK v2 decodes the same answer into its own types: the instance state   *)
(* name and the instance type are enum strings ("" when absent), the other *)
(* fields stay pointers.                                                    *)

ToV2Instance(i) ==
  [InstanceId |-> i.InstanceId,
   State |-> IF i.State = Nil THEN Nil ELSE <<[Name |-> StringValue(i.State[1].Name)]>>,
   InstanceType |-> StringValue(i.InstanceType),
   Tags |-> i.Tags]

RECURSIVE ToV2Instances(_)
ToV2Instances(instances) ==
  IF instances = <<>> THEN <<>>
  ELSE <<ToV2Instance(Head(instances))>> \o ToV2Instances(Tail(instances))

RECURSIVE ToV2Reservations(_)
ToV2Reservations(reservations) ==
  IF reservations = <<>> THEN <<>>
  ELSE <<[Instances |-> ToV2Instances(Head(reservations).Instances)]>>
       \o ToV2Reservations(Tail(reservations))

(* the answer as the client of the calling SDK hands it to main()           *)
Decode(op, page) ==
  IF op = "DescribeInstancesV2" THEN ToV2Reservations(page) ELSE page

----------------------------------------------------------------------------
(* Name tag lookup.                                                         *)

RECURSIVE NameV1(_)
NameV1(tags) ==
  IF tags = <<>> THEN "N/A"
  ELSE IF StringValue(Head(tags).Key) = "Name"
       THEN StringValue(Head(tags).Value)
       ELSE NameV1(Tail(tags))

RECURSIVE NameV2(_)
NameV2(tags) ==
  IF tags = <<>> THEN "N/A"
  ELSE IF Head(tags).Key # Nil /\ Head(tags).Key[1] = "Name" /\ Head(tags).Value # Nil
       THEN Head(tags).Value[1]
       ELSE NameV2(Tail(tags))

(* the "Name: %s" line is printed only when name != "N/A"                   *)
NameLine(name) == IF name # "N/A" THEN <<name>> ELSE <<>>

----------------------------------------------------------------------------
(* One printed sample per resource, as the fields handed to Printf.         *)

InstanceLineV1(i) ==
  [id |-> StringValue(i.InstanceId),
   state |-> StringValue(i.State[1].Name),
   type |-> StringValue(i.InstanceType),
   name |-> NameLine(NameV1(i.Tags))]

VpcLineV1(v) ==
  [id |-> StringValue(v.VpcId),
   cidr |-> StringValue(v.CidrBlock),
   isDefault |-> BoolValue(v.IsDefault),
   name |-> NameLine(NameV1(v.Tags))]

SubnetLineV1(s) ==
  [id |-> StringValue(s.SubnetId),
   vpc |-> StringValue(s.VpcId),
   cidr |-> StringValue(s.CidrBlock),
   az |-> StringValue(s.AvailabilityZone),
   name |-> NameLine(NameV1(s.Tags))]

InstanceLineV2(i) ==
  [id |-> IF i.InstanceId # Nil THEN i.InstanceId[1] ELSE "N/A",
   state |-> IF i.State # Nil /\ i.State[1].Name # "" THEN i.State[1].Name ELSE "unknown",
   type |-> IF i.InstanceType # "" THEN i.InstanceType ELSE "unknown",
   name |-> NameLine(NameV2(i.Tags))]

VpcLineV2(v) ==
  [id |-> IF v.VpcId # Nil THEN v.VpcId[1] ELSE "N/A",
   cidr |-> IF v.CidrBlock # Nil THEN v.CidrBlock[1] ELSE "N/A",
   isDefault |-> IF v.IsDefault # Nil THEN v.IsDefault[1] ELSE FALSE,
   name |-> NameLine(NameV2(v.Tags))]

SubnetLineV2(s) ==
  [id |-> IF s.SubnetId # Nil THEN s.SubnetId[1] ELSE "N/A",
   vpc |-> IF s.VpcId # Nil THEN s.VpcId[1] ELSE "N/A",
   cidr |-> IF s.CidrBlock # Nil THEN s.CidrBlock[1] ELSE "N/A",
   az |-> IF s.AvailabilityZone # Nil THEN s.AvailabilityZone[1] ELSE "N/A",
   name |-> NameLine(NameV2(s.Tags))]

Line(op, item) ==
  CASE op = "DescribeInstancesV1" -> InstanceLineV1(item)
    [] op = "DescribeVpcsV1"      -> VpcLineV1(item)
    [] op = "DescribeSubnetsV1"   -> SubnetLineV1(item)
    [] op = "DescribeInstancesV2" -> InstanceLineV2(item)
    [] op = "DescribeVpcsV2"      -> VpcLineV2(item)
    [] op = "DescribeSubnetsV2"   -> SubnetLineV2(item)

(* instance.State.Name with a nil instance.State dereferences nil: only the *)
(* v1 instance rendering reads through the pointer unguarded                *)
Panics(op, item) == op = "DescribeInstancesV1" /\ item.State = Nil

IsInstanceOp(op) == op \in {"DescribeInstancesV1", "DescribeInstancesV2"}

RECURSIVE Flatten(_)
Flatten(reservations) ==
  IF reservations = <<>> THEN <<>>
  ELSE Head(reservations).Instances \o Flatten(Tail(reservations))

RECURSIVE CountInstances(_)
CountInstances(reservations) ==
  IF reservations = <<>> THEN 0
  ELSE Len(Head(reservations).Instances) + CountInstances(Tail(reservations))

(* the items of an answer in the order the loops visit them                 *)
Items(op, answer) == IF IsInstanceOp(op) THEN Flatten(answer) ELSE answer

Count(op, answer) == IF IsInstanceOp(op) THEN CountInstances(answer) ELSE Len(answer)

RECURSIVE Samples(_, _, _)
(* the sample loop: the first SampleLimit items are printed, the loop still *)
(* visits the others; a panic ends the loop and the program                 *)
Samples(op, items, lines) ==
  IF items = <<>> THEN [lines |-> lines, panicked |-> FALSE]
  ELSE IF Len(lines) < SampleLimit
       THEN IF Panics(op, Head(items))
            THEN [lines |-> lines, panicked |-> TRUE]
            ELSE Samples(op, Tail(items), Append(lines, Line(op, Head(items))))
       ELSE Samples(op, Tail(items), lines)

EmptyBlock == [op |-> "none", count |-> 0, lines |-> <<>>, more |-> <<>>, panicked |-> FALSE]

NoResp == [items |-> <<>>, NextToken |-> Nil]

(* everything one successful EC2 listing prints: the "Found %d" count, the  *)
(* samples, the "... and %d more" line                                      *)
Render(op, answer) ==
  LET count == Count(op, answer)
      shown == Samples(op, Items(op, answer), <<>>)
  IN  [op |-> op,
       count |-> count,
       lines |-> shown.lines,
       more |-> IF ~shown.panicked /\ count > SampleLimit
                THEN <<count - SampleLimit>> ELSE <<>>,
       panicked |-> shown.panicked]

----------------------------------------------------------------------------
(* Steps shared by the two main()s.                                         *)

Msg(m, a) == [msg |-> m, arg |-> a]

Say(m, a) == out' = Append(out, Msg(m, a))

(* a call returned err != nil and the program logged it with log.Printf or *)
(* log.Fatalf                                                               *)
Failed(op, how, e) ==
  /\ err' = e
  /\ logs' = Append(logs, [op |-> op, how |-> how])
  /\ fatalSeen' = (fatalSeen \/ e \in FatalErrors)

Exit(code) == pc' = "done" /\ exitCode' = code

Goto(label) == pc' = label /\ UNCHANGED exitCode

FailedOps == { logs[k].op : k \in 1..Len(logs) }

Init ==
  /\ prog \in {"mixed_sdk", "cross_version_infrastructure"}
  /\ pc = "session"
  /\ err = "nil"
  /\ calls = <<>>
  /\ logs = <<>>
  /\ out = <<>>
  /\ backend = <<>>
  /\ resp = NoResp
  /\ block = EmptyBlock
  /\ bucketExists = FALSE
  /\ exitCode = Running
  /\ fatalSeen = FALSE

----------------------------------------------------------------------------
(* mixed_sdk                                                                *)

MixedNewSession ==
  /\ prog = "mixed_sdk" /\ pc = "session"
  /\ \/ \E e \in Errors : Failed("NewSession", "Fatalf", e) /\ Exit(ExitFatal) /\ UNCHANGED out
     \/ err' = "nil" /\ Say("v1 client created", "") /\ Goto("config")
                     /\ UNCHANGED <<logs, fatalSeen>>
  /\ UNCHANGED <<prog, calls, backend, resp, block, bucketExists>>

MixedLoadConfig ==
  /\ prog = "mixed_sdk" /\ pc = "config"
  /\ \/ \E e \in Errors : Failed("LoadDefaultConfig", "Fatalf", e) /\ Exit(ExitFatal) /\ UNCHANGED out
     \/ err' = "nil" /\ Say("v2 client created", "") /\ Goto("announce3")
                     /\ UNCHANGED <<logs, fatalSeen>>
  /\ UNCHANGED <<prog, calls, backend, resp, block, bucketExists>>

(* the numbered header line that opens a listing step                       *)
Announce(label, next) ==
  /\ prog = "mixed_sdk" /\ pc = label
  /\ block' = EmptyBlock /\ resp' = NoResp /\ backend' = <<>>
  /\ Goto(next)
  /\ UNCHANGED <<prog, err, calls, logs, out, bucketExists, fatalSeen>>

(* what the backend can hold for the resource kind a call lists            *)
Listings(op) ==
  CASE op \in {"DescribeInstancesV1", "DescribeInstancesV2"} -> PagedReservations
    [] op \in {"DescribeVpcsV1", "DescribeVpcsV2"} -> PagedListings(VpcPool, MaxItems)
    [] op \in {"DescribeSubnetsV1", "DescribeSubnetsV2"} -> PagedListings(SubnetPool, MaxItems)

(* one listing step: the call, then either the log line of the failure or   *)
(* the count, the samples and the "... and N more" line.  The call is made  *)
(* once: the answer is the backend's first page.                            *)
Listing(label, next, op) ==
  /\ prog = "mixed_sdk" /\ pc = label
  /\ calls' = Append(calls, op)
  /\ \/ \E e \in Errors :
          /\ Failed(op, "Printf", e)
          /\ Goto(next)
          /\ UNCHANGED <<backend, resp, block>>
     \/ \E pages \in Listings(op) :
          LET answer == Decode(op, Head(pages))
              b == Render(op, answer)
          IN  /\ backend' = pages
              /\ resp' = [items |-> answer,
                          NextToken |-> IF Len(pages) > 1 THEN <<"next">> ELSE Nil]
              /\ block' = b
              /\ err' = "nil"
              /\ IF b.panicked THEN Exit(ExitPanic) ELSE Goto(next)
              /\ UNCHANGED <<logs, fatalSeen>>
  /\ UNCHANGED <<prog, out, bucketExists>>

AnnounceInstancesV1 == Announce("announce3", "list3")

ListInstancesV1 == Listing("list3", "announce4", "DescribeInstancesV1")

AnnounceVpcsV1 == Announce("announce4", "list4")

ListVpcsV1 == Listing("list4", "announce5", "DescribeVpcsV1")

AnnounceSubnetsV1 == Announce("announce5", "list5")

ListSubnetsV1 == Listing("list5", "announce6", "DescribeSubnetsV1")

AnnounceInstancesV2 == Announce("announce6", "list6")

ListInstancesV2 == Listing("list6", "announce7", "DescribeInstancesV2")

AnnounceVpcsV2 == Announce("announce7", "list7")

ListVpcsV2 == Listing("list7", "announce8", "DescribeVpcsV2")

AnnounceSubnetsV2 == Announce("announce8", "list8")

ListSubnetsV2 == Listing("list8", "conclusion", "DescribeSubnetsV2")

MixedConclusion ==
  /\ prog = "mixed_sdk" /\ pc = "conclusion"
  /\ Say("conclusion", "")
  /\ Exit(ExitOk)
  /\ UNCHANGED <<prog, err, calls, logs, backend, resp, block, bucketExists, fatalSeen>>

----------------------------------------------------------------------------
(* cross_version_infrastructure                                             *)

Cross == "cross_version_infrastructure"

(* every step of this main() opens a new block of output                    *)
Fresh == block' = EmptyBlock /\ resp' = NoResp /\ backend' = <<>>

CrossNewSession ==
  /\ prog = Cross /\ pc = "session"
  /\ \/ \E e \in Errors : Failed("NewSession", "Fatalf", e) /\ Exit(ExitFatal) /\ UNCHANGED out
     \/ err' = "nil" /\ Goto("create") /\ UNCHANGED <<logs, fatalSeen, out>>
  /\ UNCHANGED <<prog, calls, backend, resp, block, bucketExists>>

(* a failed CreateBucket logged without ending the run                      *)
CreateFailedLogged(e) ==
  /\ Failed("CreateBucket", "Printf", e) /\ Goto("head")
  /\ UNCHANGED <<out, bucketExists>>

CreateFailed(e) ==
  /\ Failed("CreateBucket", "Fatalf", e) /\ Exit(ExitFatal)
  /\ UNCHANGED <<out, bucketExists>>

CreateBucket ==
  /\ prog = Cross /\ pc = "create"
  /\ calls' = Append(calls, "CreateBucket")
  /\ \/ \E e \in Errors : CreateFailed(e)
     \/ /\ err' = "nil" /\ bucketExists' = TRUE
        /\ Say("bucket created", BucketName) /\ Goto("head")
        /\ UNCHANGED <<logs, fatalSeen>>
  /\ UNCHANGED <<prog, backend, resp, block>>

(* a failed HeadBucket logged without ending the run                        *)
HeadFailedLogged(e) ==
  Failed("HeadBucket", "Printf", e) /\ Goto("config") /\ UNCHANGED out

HeadFailed(e) ==
  Failed("HeadBucket", "Fatalf", e) /\ Exit(ExitFatal) /\ UNCHANGED out

HeadBucket ==
  /\ prog = Cross /\ pc = "head"
  /\ calls' = Append(calls, "HeadBucket")
  /\ \/ \E e \in Errors : HeadFailed(e)
     \/ /\ err' = "nil" /\ Say("bucket verified", BucketName) /\ Goto("config")
        /\ UNCHANGED <<logs, fatalSeen>>
  /\ UNCHANGED <<prog, backend, resp, block, bucketExists>>

CrossLoadConfig ==
  /\ prog = Cross /\ pc = "config"
  /\ \/ \E e \in Errors : Failed("LoadDefaultConfig", "Fatalf", e) /\ Exit(ExitFatal)
     \/ err' = "nil" /\ Goto("listbuckets") /\ UNCHANGED <<logs, fatalSeen>>
  /\ UNCHANGED <<prog, calls, out, backend, resp, block, bucketExists>>

RECURSIVE FindBucket(_)
(* the lookup loop: *bucket.Name is read for every bucket up to the match   *)
FindBucket(buckets) ==
  IF buckets = <<>> THEN "absent"
  ELSE IF Head(buckets).Name = Nil THEN "panic"
       ELSE IF Head(buckets).Name[1] = BucketName THEN "found"
            ELSE FindBucket(Tail(buckets))

(* a bucket missing from the listing reported without ending the run        *)
BucketNotFoundTolerated ==
  /\ err' = "nil" /\ Goto("location")
  /\ logs' = Append(logs, [op |-> "BucketLookup", how |-> "Printf"])
  /\ UNCHANGED <<out, fatalSeen>>

(* if !bucketFound { log.Fatalf(...) }                                      *)
BucketNotFound ==
  /\ err' = "nil" /\ Exit(ExitFatal)
  /\ logs' = Append(logs, [op |-> "BucketLookup", how |-> "Fatalf"])
  /\ UNCHANGED <<out, fatalSeen>>

ListBuckets ==
  /\ prog = Cross /\ pc = "listbuckets"
  /\ calls' = Append(calls, "ListBuckets")
  /\ \/ \E e \in Errors : /\ Failed("ListBuckets", "Fatalf", e) /\ Exit(ExitFatal)
                          /\ Fresh /\ UNCHANGED out
     \/ \E pages \in PagedListings(BucketPool, MaxBuckets) :
          LET found == FindBucket(Head(pages))
          IN  /\ backend' = pages
              /\ resp' = [items |-> Head(pages),
                          NextToken |-> IF Len(pages) > 1 THEN <<"next">> ELSE Nil]
              /\ block' = [EmptyBlock EXCEPT !.op = "ListBuckets",
                                             !.panicked = (found = "panic")]
              /\ CASE found = "found" ->
                        /\ err' = "nil" /\ Say("bucket found", BucketName)
                        /\ Goto("location") /\ UNCHANGED <<logs, fatalSeen>>
                   [] found = "absent" -> BucketNotFound
                   [] found = "panic" ->
                        /\ err' = "nil" /\ Exit(ExitPanic)
                        /\ UNCHANGED <<out, logs, fatalSeen>>
  /\ UNCHANGED <<prog, bucketExists>>

GetBucketLocation ==
  /\ prog = Cross /\ pc = "location"
  /\ calls' = Append(calls, "GetBucketLocation")
  /\ Fresh
  /\ \/ \E e \in Errors : Failed("GetBucketLocation", "Fatalf", e) /\ Exit(ExitFatal) /\ UNCHANGED out
     \/ \E constraint \in {"", "eu-west-1"} :
          /\ err' = "nil"
          /\ Say("bucket location", IF constraint # "" THEN constraint ELSE "us-east-1")
          /\ Goto("put")
          /\ UNCHANGED <<logs, fatalSeen>>
  /\ UNCHANGED <<prog, bucketExists>>

PutObject ==
  /\ prog = Cross /\ pc = "put"
  /\ calls' = Append(calls, "PutObject")
  /\ Fresh
  /\ \/ \E e \in Errors : Failed("PutObject", "Printf", e) /\ UNCHANGED out
     \/ err' = "nil" /\ Say("object created", ObjectKey) /\ UNCHANGED <<logs, fatalSeen>>
  /\ Goto("listobjects")
  /\ UNCHANGED <<prog, bucketExists>>

ListObjectsV2 ==
  /\ prog = Cross /\ pc = "listobjects"
  /\ calls' = Append(calls, "ListObjectsV2")
  /\ \/ \E e \in Errors : Failed("ListObjectsV2", "Printf", e) /\ Fresh
     \/ \E pages \in PagedListings(ObjectPool, MaxObjects) :
          /\ backend' = pages
          /\ resp' = [items |-> Head(pages),
                      NextToken |-> IF Len(pages) > 1 THEN <<"next">> ELSE Nil]
          /\ block' = [EmptyBlock EXCEPT !.op = "ListObjectsV2",
                                         !.count = Len(Head(pages))]
          /\ err' = "nil"
          /\ UNCHANGED <<logs, fatalSeen>>
  /\ Goto("delete")
  /\ UNCHANGED <<prog, out, bucketExists>>

(* a failed DeleteBucket that only logs the warning                         *)
DeleteFailedSilent(e) ==
  /\ Failed("DeleteBucket", "Printf", e)
  /\ UNCHANGED <<out, bucketExists>>

DeleteFailed(e) ==
  /\ Failed("DeleteBucket", "Printf", e)
  /\ Say("please manually delete bucket", BucketName)
  /\ UNCHANGED bucketExists

DeleteBucket ==
  /\ prog = Cross /\ pc = "delete"
  /\ calls' = Append(calls, "DeleteBucket")
  /\ Fresh
  /\ \/ \E e \in Errors : DeleteFailed(e)
     \/ /\ err' = "nil" /\ bucketExists' = FALSE
        /\ Say("bucket deleted", BucketName)
        /\ UNCHANGED <<logs, fatalSeen>>
  /\ Goto("conclusion")
  /\ UNCHANGED prog

CrossConclusion ==
  /\ prog = Cross /\ pc = "conclusion"
  /\ Say("conclusion", "")
  /\ Exit(ExitOk)
  /\ UNCHANGED <<prog, err, calls, logs, backend, resp, block, bucketExists, fatalSeen>>

----------------------------------------------------------------------------

Next ==
  \/ MixedNewSession \/ MixedLoadConfig
  \/ AnnounceInstancesV1 \/ ListInstancesV1
  \/ AnnounceVpcsV1 \/ ListVpcsV1
  \/ AnnounceSubnetsV1 \/ ListSubnetsV1
  \/ AnnounceInstancesV2 \/ ListInstancesV2
  \/ AnnounceVpcsV2 \/ ListVpcsV2
  \/ AnnounceSubnetsV2 \/ ListSubnetsV2
  \/ MixedConclusion
  \/ CrossNewSession \/ CreateBucket \/ HeadBucket \/ CrossLoadConfig
  \/ ListBuckets \/ GetBucketLocation \/ PutObject \/ ListObjectsV2
  \/ DeleteBucket \/ CrossConclusion

Spec == Init /\ [][Next]_vars

----------------------------------------------------------------------------
(* Properties.                                                              *)

Range(s) == { s[k] : k \in 1..Len(s) }

Last(s) == s[Len(s)]

IsPrefix(s, t) == Len(s) <= Len(t) /\ \A k \in 1..Len(s) : s[k] = t[k]

EC2Ops == {"DescribeInstancesV1", "DescribeVpcsV1", "DescribeSubnetsV1",
           "DescribeInstancesV2", "DescribeVpcsV2", "DescribeSubnetsV2"}

V1Ops == {"DescribeInstancesV1", "DescribeVpcsV1", "DescribeSubnetsV1"}

(* the items of the answer just rendered, in listing order                  *)
Shown == Items(block.op, resp.items)

(* C1: a successful EC2 listing of n items reports the count n, prints      *)
(* exactly min(n,3) samples, which are the first min(n,3) items in listing  *)
(* order, and prints "... and N more" iff n > 3, with N = n - 3.            *)
C1_FirstThreeAndMore ==
  block.op \in EC2Ops =>
    LET n == Len(Shown)
        m == Min(n, 3)
    IN  /\ block.count = n
        /\ Len(block.lines) = m
        /\ \A k \in 1..m : block.lines[k] = Line(block.op, Shown[k])
        /\ block.more = IF n > 3 THEN <<n - 3>> ELSE <<>>

RECURSIVE FirstNameTag(_, _)
(* position of the first tag whose key is "Name", 0 when there is none      *)
FirstNameTag(tags, k) ==
  IF k > Len(tags) THEN 0
  ELSE IF tags[k].Key = <<"Name">> THEN k
       ELSE FirstNameTag(tags, k + 1)

(* the Name a resource must show when the first "Name" tag decides it: the  *)
(* value of that tag; nothing or the empty string when that value is absent *)
NameDecidedByFirstTag(tags, shown) ==
  LET k == FirstNameTag(tags, 1)
  IN  IF k = 0 THEN shown = <<>>
      ELSE IF tags[k].Value # Nil THEN shown = tags[k].Value
           ELSE shown \in {<<>>, <<"">>}

(* C2: the Name displayed for a resource is the value of the first tag, in  *)
(* listing order, whose key is "Name"; a later tag with that key never      *)
(* decides it, whatever the first matching tag holds.                       *)
C2_FirstNameTagWins ==
  block.op \in EC2Ops =>
    \A k \in 1..Len(block.lines) :
      NameDecidedByFirstTag(Shown[k].Tags, block.lines[k].name)

Twin(op) ==
  CASE op = "DescribeInstancesV1" -> "DescribeInstancesV2"
    [] op = "DescribeVpcsV1"      -> "DescribeVpcsV2"
    [] op = "DescribeSubnetsV1"   -> "DescribeSubnetsV2"
    [] op = "DescribeInstancesV2" -> "DescribeInstancesV1"
    [] op = "DescribeVpcsV2"      -> "DescribeVpcsV1"
    [] op = "DescribeSubnetsV2"   -> "DescribeSubnetsV1"

(* the same answer as the other SDK path of mixed_sdk renders it             *)
TwinBlock == Render(Twin(block.op), Decode(Twin(block.op), Head(backend)))

V1Block == IF block.op \in V1Ops THEN block ELSE TwinBlock

V2Block == IF block.op \in V1Ops THEN TwinBlock ELSE block

(* a field shown by both paths: the backend's value when it has one, else   *)
(* each path's own default                                                  *)
SameField(ptr, v1, v2, default1, default2) ==
  IF ptr # Nil THEN v1 = ptr[1] /\ v2 = ptr[1]
  ELSE v1 = default1 /\ v2 = default2

SameName(tags, v1, v2) ==
  LET k == FirstNameTag(tags, 1)
  IN  IF k = 0 THEN v1 = <<>> /\ v2 = <<>>
      ELSE IF tags[k].Value # Nil THEN v1 = tags[k].Value /\ v2 = tags[k].Value
           ELSE v1 = <<"">> /\ v2 = <<>>

SameLine(op, item, l1, l2) ==
  /\ SameName(item.Tags, l1.name, l2.name)
  /\ CASE op \in {"DescribeInstancesV1", "DescribeInstancesV2"} ->
            /\ SameField(item.InstanceId, l1.id, l2.id, "", "N/A")
            /\ SameField(IF item.State = Nil THEN Nil ELSE item.State[1].Name,
                         l1.state, l2.state, "", "unknown")
            /\ SameField(item.InstanceType, l1.type, l2.type, "", "unknown")
       [] op \in {"DescribeVpcsV1", "DescribeVpcsV2"} ->
            /\ SameField(item.VpcId, l1.id, l2.id, "", "N/A")
            /\ SameField(item.CidrBlock, l1.cidr, l2.cidr, "", "N/A")
            /\ SameField(item.IsDefault, l1.isDefault, l2.isDefault, FALSE, FALSE)
       [] op \in {"DescribeSubnetsV1", "DescribeSubnetsV2"} ->
            /\ SameField(item.SubnetId, l1.id, l2.id, "", "N/A")
            /\ SameField(item.VpcId, l1.vpc, l2.vpc, "", "N/A")
            /\ SameField(item.CidrBlock, l1.cidr, l2.cidr, "", "N/A")
            /\ SameField(item.AvailabilityZone, l1.az, l2.az, "", "N/A")

(* C3: for the same backend answer the SDK v1 path and the SDK v2 path of   *)
(* mixed_sdk print the same count, the same samples field by field and the  *)
(* same "more" line; a field differs only by the default each path puts in  *)
(* place of an absent value.                                                *)
C3_PathsFieldEquivalent ==
  block.op \in EC2Ops =>
    LET items == IF IsInstanceOp(block.op) THEN Flatten(Head(backend))
                                           ELSE Head(backend)
    IN  /\ ~V1Block.panicked /\ ~V2Block.panicked
        /\ V1Block.count = V2Block.count
        /\ V1Block.more = V2Block.more
        /\ Len(V1Block.lines) = Len(V2Block.lines)
        /\ \A k \in 1..Len(V1Block.lines) :
             SameLine(block.op, items[k], V1Block.lines[k], V2Block.lines[k])

ContinuingOps == EC2Ops \cup {"PutObject", "ListObjectsV2", "DeleteBucket"}

AbortingOps == {"NewSession", "LoadDefaultConfig", "CreateBucket", "HeadBucket",
                "ListBuckets", "GetBucketLocation"}

BucketListed == block.op = "ListBuckets" /\ "ListBuckets" \notin FailedOps

Absent(buckets) == \A k \in 1..Len(buckets) : buckets[k].Name # <<BucketName>>

Held == LET all == Concat(backend)
        IN  IF IsInstanceOp(block.op) THEN Flatten(all) ELSE all

(* C6: a listing follows the continuation tokens to the end: the count it   *)
(* reports is the sum of the lengths of all the backend's pages, and the    *)
(* items it goes through are the pages' items in order.                     *)
C6_AllPagesListed ==
  (block.op \in EC2Ops \cup {"ListObjectsV2"} /\ ~block.panicked) =>
     /\ block.count = Len(Held)
     /\ Len(Items(block.op, resp.items)) = Len(Held)

(* C7: a run of cross_version_infrastructure in which CreateBucket succeeded *)
(* has issued DeleteBucket by the time the process ends.                    *)
C7_CreatedBucketIsDeleted ==
  (prog = Cross /\ pc = "done"
     /\ "CreateBucket" \in Range(calls) /\ "CreateBucket" \notin FailedOps) =>
     "DeleteBucket" \in Range(calls)

ManualDelete == Msg("please manually delete bucket", BucketName)

(* C8: the request to delete the bucket by hand, naming the bucket, is      *)
(* printed iff DeleteBucket was issued and failed; then DeleteBucket is the *)
(* last remote call, the bucket is still there, and the run goes on to the  *)
(* conclusion and ends with status 0.                                       *)
C8_ManualDeleteIffDeleteFailed ==
  prog = Cross =>
    /\ ManualDelete \in Range(out) <=>
         ("DeleteBucket" \in Range(calls) /\ "DeleteBucket" \in FailedOps)
    /\ "DeleteBucket" \in FailedOps =>
         /\ Last(calls) = "DeleteBucket"
         /\ bucketExists
         /\ pc \in {"conclusion", "done"}
         /\ pc = "done" => (exitCode = 0 /\ Last(out) = Msg("conclusion", ""))

C8_Witness ==
  /\ prog = Cross /\ pc = "done" /\ "DeleteBucket" \in FailedOps
  /\ ManualDelete \in Range(out) /\ bucketExists

CrossCallOrder == <<"CreateBucket", "HeadBucket", "ListBuckets", "GetBucketLocation",
                    "PutObject", "ListObjectsV2", "DeleteBucket">>

(* C9: the remote calls of cross_version_infrastructure are a prefix of     *)
(* CreateBucket, HeadBucket, ListBuckets, GetBucketLocation, PutObject,     *)
(* ListObjectsV2, DeleteBucket (so each at most once, PutObject never after *)
(* DeleteBucket); PutObject is issued only after CreateBucket, HeadBucket   *)
(* and GetBucketLocation succeeded and the bucket was found in the listing. *)
C9_CallsArePrefix ==
  prog = Cross =>
    /\ IsPrefix(calls, CrossCallOrder)
    /\ "PutObject" \in Range(calls) =>
         /\ FailedOps \cap {"CreateBucket", "HeadBucket", "ListBuckets",
                            "BucketLookup", "GetBucketLocation"} = {}
         /\ Msg("bucket created", BucketName) \in Range(out)
         /\ Msg("bucket verified", BucketName) \in Range(out)
         /\ Msg("bucket found", BucketName) \in Range(out)
         /\ \E k \in 1..Len(out) : out[k].msg = "bucket location"

C9_Witness ==
  /\ prog = Cross /\ pc = "done"
  /\ calls = CrossCallOrder

(* C10: rendering a listed resource with absent optional fields never       *)
(* aborts a program: no rendering loop panics.                              *)
C10_AbsentFieldsNeverAbort ==
  ~block.panicked /\ exitCode # 2

MixedCallOrder == <<"DescribeInstancesV1", "DescribeVpcsV1", "DescribeSubnetsV1",
                    "DescribeInstancesV2", "DescribeVpcsV2", "DescribeSubnetsV2">>

ClientsReady == prog = "mixed_sdk" /\ Msg("v2 client created", "") \in Range(out)

(* C11: once both clients of mixed_sdk are initialized, the listing calls   *)
(* are issued once each in the order v1 instances, v1 VPCs, v1 subnets, v2  *)
(* instances, v2 VPCs, v2 subnets; a failed listing is logged, prints no    *)
(* count and no samples and is not retried; and the run ends only after all *)
(* six calls, at the conclusion, with exit status 0.                        *)
C11_SixListingsThenConclusion ==
  ClientsReady =>
    /\ IsPrefix(calls, MixedCallOrder)
    /\ \A k \in 1..Len(logs) : logs[k].how = "Printf"
    /\ (calls # <<>> /\ Last(calls) \in FailedOps) => block = EmptyBlock
    /\ pc = "done" =>
         /\ calls = MixedCallOrder
         /\ Last(out) = Msg("conclusion", "")
         /\ exitCode = 0

====
